---- MODULE Spec2Model ----
(***************************************************************************)
(* generate_names.py: a one-shot batch merge.  The script loads a JSON     *)
(* array of name records from a fixed path, filters the literal list       *)
(* additional_names down to the records whose id the file does not hold,   *)
(* appends them, sorts the whole list by lower-cased display name, writes  *)
(* it back over the same path and prints two summary lines.                *)
(*                                                                         *)
(* Strings that the script only compares for equality (id, gender, tags,   *)
(* meaning, popularity) are TLA+ strings.  The display name is ordered by  *)
(* the sort, so it is a sequence of code points: str.lower and the str     *)
(* comparison are computed on the code points.                             *)
(*                                                                         *)
(* The file is [kind, data]: "missing" (no such path), "garbage" (content  *)
(* that json.load rejects), "json" (a JSON array; data is its sequence of  *)
(* objects, each the tuple of its member values in document order) and     *)
(* "partial" (what an interrupted write leaves: the objects written so     *)
(* far, the array never closed, so json.load rejects it too).              *)
(***************************************************************************)
EXTENDS Integers, Sequences, FiniteSets, TLC

\* Longest array the initial file holds.
MaxExisting == 2

\* Longest candidate list other than the literal of the script.
MaxCand == 2

\* Number of times the script is run, one run after the other.
MaxRuns == 2

VARIABLES
    file,              \* the content at the fixed path
    stdout,            \* the lines printed so far, over all runs
    additional_names,  \* the candidate list (line 11)
    pc,                \* the statement the current run is at
    err,               \* where the current run raised: "none", "load", "open", "dump"
    existing_names,    \* line 6
    existing_ids,      \* line 83
    new_names,         \* line 84
    all_names,         \* lines 87, 90
    runs,              \* runs started so far
    file0              \* the file as the current run found it

vars == <<file, stdout, additional_names, pc, err, existing_names, existing_ids,
          new_names, all_names, runs, file0>>

Range(s) == {s[i] : i \in 1..Len(s)}

SeqsUpTo(S, n) == UNION {[1..k -> S] : k \in 0..n}

\* A name record with the seven members every record of the script has.
NameRecord(id, name, gender, origins, styles, meaning, popularity) ==
    [id |-> id, name |-> name, gender |-> gender, origins |-> origins,
     styles |-> styles, meaning |-> meaning, popularity |-> popularity]

\* The literal additional_names; each name is spelled as its code points.
HardcodedNames == <<
    (* Aiden     *) NameRecord("aiden", <<65, 105, 100, 101, 110>>, "male", <<"irish">>, <<"modern", "strong">>, "Little fire", "popular"),
    (* Jackson   *) NameRecord("jackson", <<74, 97, 99, 107, 115, 111, 110>>, "male", <<"english">>, <<"modern", "strong">>, "Son of Jack", "popular"),
    (* Logan     *) NameRecord("logan", <<76, 111, 103, 97, 110>>, "male", <<"scottish">>, <<"modern", "strong">>, "Small hollow", "popular"),
    (* Lucas     *) NameRecord("lucas", <<76, 117, 99, 97, 115>>, "male", <<"latin">>, <<"classic", "modern">>, "Light", "popular"),
    (* Michael   *) NameRecord("michael", <<77, 105, 99, 104, 97, 101, 108>>, "male", <<"hebrew">>, <<"classic", "biblical">>, "Who is like God", "popular"),
    (* Emma      *) NameRecord("emma", <<69, 109, 109, 97>>, "female", <<"german">>, <<"classic", "vintage">>, "Universal", "popular"),
    (* Olivia    *) NameRecord("olivia", <<79, 108, 105, 118, 105, 97>>, "female", <<"latin">>, <<"classic", "literary">>, "Olive tree", "popular"),
    (* Ava       *) NameRecord("ava", <<65, 118, 97>>, "female", <<"latin">>, <<"modern", "elegant">>, "Life", "popular"),
    (* Sophia    *) NameRecord("sophia", <<83, 111, 112, 104, 105, 97>>, "female", <<"greek">>, <<"classic", "elegant">>, "Wisdom", "popular"),
    (* Isabella  *) NameRecord("isabella", <<73, 115, 97, 98, 101, 108, 108, 97>>, "female", <<"italian", "spanish">>, <<"classic", "royal">>, "Devoted to God", "popular"),
    (* Mia       *) NameRecord("mia", <<77, 105, 97>>, "female", <<"italian", "scandinavian">>, <<"modern", "gentle">>, "Mine", "popular"),
    (* Charlotte *) NameRecord("charlotte", <<67, 104, 97, 114, 108, 111, 116, 116, 101>>, "female", <<"french">>, <<"classic", "royal">>, "Free woman", "popular"),
    (* Amelia    *) NameRecord("amelia", <<65, 109, 101, 108, 105, 97>>, "female", <<"german">>, <<"classic", "vintage">>, "Industrious", "popular"),
    (* Harper    *) NameRecord("harper", <<72, 97, 114, 112, 101, 114>>, "female", <<"english">>, <<"modern", "literary">>, "Harp player", "popular"),
    (* Evelyn    *) NameRecord("evelyn", <<69, 118, 101, 108, 121, 110>>, "female", <<"english">>, <<"vintage", "elegant">>, "Desired", "popular"),
    (* River     *) NameRecord("river", <<82, 105, 118, 101, 114>>, "neutral", <<"english">>, <<"nature", "modern">>, "Flowing water", "common"),
    (* Sage      *) NameRecord("sage", <<83, 97, 103, 101>>, "neutral", <<"latin">>, <<"nature", "bohemian">>, "Wise one", "common"),
    (* Willow    *) NameRecord("willow", <<87, 105, 108, 108, 111, 119>>, "female", <<"english">>, <<"nature", "gentle">>, "Willow tree", "common"),
    (* Aspen     *) NameRecord("aspen", <<65, 115, 112, 101, 110>>, "neutral", <<"english">>, <<"nature", "modern">>, "Quaking tree", "uncommon"),
    (* Ivy       *) NameRecord("ivy", <<73, 118, 121>>, "female", <<"english">>, <<"nature", "vintage">>, "Climbing plant", "common"),
    (* Hazel     *) NameRecord("hazel", <<72, 97, 122, 101, 108>>, "female", <<"english">>, <<"nature", "vintage">>, "Hazelnut tree", "common"),
    (* Jasper    *) NameRecord("jasper", <<74, 97, 115, 112, 101, 114>>, "male", <<"persian">>, <<"nature", "vintage">>, "Treasurer", "uncommon"),
    (* Rowan     *) NameRecord("rowan", <<82, 111, 119, 97, 110>>, "neutral", <<"irish">>, <<"nature", "celtic">>, "Little red one", "uncommon"),
    (* Oak       *) NameRecord("oak", <<79, 97, 107>>, "male", <<"english">>, <<"nature", "strong">>, "Oak tree", "rare"),
    (* Wren      *) NameRecord("wren", <<87, 114, 101, 110>>, "female", <<"english">>, <<"nature", "gentle">>, "Small bird", "uncommon"),
    (* Santiago  *) NameRecord("santiago", <<83, 97, 110, 116, 105, 97, 103, 111>>, "male", <<"spanish">>, <<"classic", "strong">>, "Saint James", "common"),
    (* Diego     *) NameRecord("diego", <<68, 105, 101, 103, 111>>, "male", <<"spanish">>, <<"classic", "strong">>, "Supplanter", "common"),
    (* Sofia     *) NameRecord("sofia", <<83, 111, 102, 105, 97>>, "female", <<"spanish", "italian">>, <<"classic", "elegant">>, "Wisdom", "popular"),
    (* Aria      *) NameRecord("aria", <<65, 114, 105, 97>>, "female", <<"italian">>, <<"modern", "artistic">>, "Air, melody", "popular"),
    (* Luna      *) NameRecord("luna", <<76, 117, 110, 97>>, "female", <<"latin", "spanish">>, <<"modern", "mystical">>, "Moon", "popular"),
    (* Kai       *) NameRecord("kai", <<75, 97, 105>>, "neutral", <<"hawaiian", "japanese">>, <<"modern", "nature">>, "Sea", "common"),
    (* Yuki      *) NameRecord("yuki", <<89, 117, 107, 105>>, "neutral", <<"japanese">>, <<"modern", "gentle">>, "Snow", "uncommon"),
    (* Arjun     *) NameRecord("arjun", <<65, 114, 106, 117, 110>>, "male", <<"indian">>, <<"classic", "strong">>, "Bright, shining", "common"),
    (* Priya     *) NameRecord("priya", <<80, 114, 105, 121, 97>>, "female", <<"indian">>, <<"classic", "gentle">>, "Beloved", "common"),
    (* Omar      *) NameRecord("omar", <<79, 109, 97, 114>>, "male", <<"arabic">>, <<"classic", "strong">>, "Flourishing", "common"),
    (* Layla     *) NameRecord("layla", <<76, 97, 121, 108, 97>>, "female", <<"arabic">>, <<"classic", "romantic">>, "Night", "popular"),
    (* Zara      *) NameRecord("zara", <<90, 97, 114, 97>>, "female", <<"arabic">>, <<"modern", "elegant">>, "Princess", "common"),
    (* Theodore  *) NameRecord("theodore", <<84, 104, 101, 111, 100, 111, 114, 101>>, "male", <<"greek">>, <<"vintage", "classic">>, "Gift of God", "popular"),
    (* Arthur    *) NameRecord("arthur", <<65, 114, 116, 104, 117, 114>>, "male", <<"celtic">>, <<"vintage", "royal">>, "Bear", "common"),
    (* Felix     *) NameRecord("felix", <<70, 101, 108, 105, 120>>, "male", <<"latin">>, <<"vintage", "cheerful">>, "Happy, fortunate", "uncommon"),
    (* Augustus  *) NameRecord("augustus", <<65, 117, 103, 117, 115, 116, 117, 115>>, "male", <<"latin">>, <<"vintage", "royal">>, "Great, magnificent", "uncommon"),
    (* Beatrice  *) NameRecord("beatrice", <<66, 101, 97, 116, 114, 105, 99, 101>>, "female", <<"latin">>, <<"vintage", "literary">>, "She who brings happiness", "uncommon"),
    (* Clara     *) NameRecord("clara", <<67, 108, 97, 114, 97>>, "female", <<"latin">>, <<"vintage", "classic">>, "Bright, clear", "common"),
    (* Eleanor   *) NameRecord("eleanor", <<69, 108, 101, 97, 110, 111, 114>>, "female", <<"french">>, <<"vintage", "royal">>, "Light", "popular"),
    (* Josephine *) NameRecord("josephine", <<74, 111, 115, 101, 112, 104, 105, 110, 101>>, "female", <<"french">>, <<"vintage", "elegant">>, "God will increase", "common"),
    (* Florence  *) NameRecord("florence", <<70, 108, 111, 114, 101, 110, 99, 101>>, "female", <<"latin">>, <<"vintage", "classic">>, "Flourishing", "uncommon"),
    (* Mabel     *) NameRecord("mabel", <<77, 97, 98, 101, 108>>, "female", <<"latin">>, <<"vintage", "gentle">>, "Lovable", "uncommon"),
    (* Abraham   *) NameRecord("abraham", <<65, 98, 114, 97, 104, 97, 109>>, "male", <<"hebrew">>, <<"biblical", "classic">>, "Father of multitudes", "common"),
    (* Ezekiel   *) NameRecord("ezekiel", <<69, 122, 101, 107, 105, 101, 108>>, "male", <<"hebrew">>, <<"biblical", "strong">>, "God strengthens", "uncommon"),
    (* Isaiah    *) NameRecord("isaiah", <<73, 115, 97, 105, 97, 104>>, "male", <<"hebrew">>, <<"biblical", "strong">>, "Salvation of the Lord", "popular"),
    (* Jeremiah  *) NameRecord("jeremiah", <<74, 101, 114, 101, 109, 105, 97, 104>>, "male", <<"hebrew">>, <<"biblical", "strong">>, "Appointed by God", "common"),
    (* Micah     *) NameRecord("micah", <<77, 105, 99, 97, 104>>, "neutral", <<"hebrew">>, <<"biblical", "modern">>, "Who is like God", "common"),
    (* Sarah     *) NameRecord("sarah", <<83, 97, 114, 97, 104>>, "female", <<"hebrew">>, <<"biblical", "classic">>, "Princess", "popular"),
    (* Rebecca   *) NameRecord("rebecca", <<82, 101, 98, 101, 99, 99, 97>>, "female", <<"hebrew">>, <<"biblical", "classic">>, "To bind", "common"),
    (* Rachel    *) NameRecord("rachel", <<82, 97, 99, 104, 101, 108>>, "female", <<"hebrew">>, <<"biblical", "classic">>, "Ewe", "common"),
    (* Leah      *) NameRecord("leah", <<76, 101, 97, 104>>, "female", <<"hebrew">>, <<"biblical", "gentle">>, "Weary", "common"),
    (* Hannah    *) NameRecord("hannah", <<72, 97, 110, 110, 97, 104>>, "female", <<"hebrew">>, <<"biblical", "classic">>, "Grace", "popular")
>>

----------------------------------------------------------------------------
(* Strings and JSON *)

\* str.lower on one ASCII code point: 'A'..'Z' move to 'a'..'z'.
LowerChar(c) == IF c >= 65 /\ c =< 90 THEN c + 32 ELSE c

\* str.lower
Lower(s) == [i \in 1..Len(s) |-> LowerChar(s[i])]

\* Python's s < t on str: the first differing code point decides, a proper
\* prefix is smaller.
RECURSIVE StrLess(_, _)
StrLess(s, t) ==
    IF t = <<>> THEN FALSE
    ELSE IF s = <<>> THEN TRUE
    ELSE IF Head(s) # Head(t) THEN Head(s) < Head(t)
    ELSE StrLess(Tail(s), Tail(t))

StrLeq(s, t) == ~StrLess(t, s)

\* json.dump of one record: the member values in insertion order.
DumpRecord(r) == <<r.id, r.name, r.gender, r.origins, r.styles, r.meaning, r.popularity>>

\* json.load of one object.
LoadRecord(o) == NameRecord(o[1], o[2], o[3], o[4], o[5], o[6], o[7])

\* json.dump(all_names, f, indent=2): the array, object by object.
JsonDump(recs) == [i \in 1..Len(recs) |-> DumpRecord(recs[i])]

\* json.load(f) on a file that holds a JSON array.
JsonLoad(data) == [i \in 1..Len(data) |-> LoadRecord(data[i])]

----------------------------------------------------------------------------
(* The sort of line 90 *)

\* Variant: the key is the name as spelled, without .lower().
SortKey_raw(x) == x.name

\* key=lambda x: x['name'].lower()
SortKey(x) == Lower(x.name)

\* Variant: x goes before the elements whose key equals its own, which
\* makes the sort unstable.
InsertByKey_before(sorted, x) ==
    LET p == Cardinality({i \in 1..Len(sorted) : StrLess(SortKey(sorted[i]), SortKey(x))})
    IN  SubSeq(sorted, 1, p) \o <<x>> \o SubSeq(sorted, p + 1, Len(sorted))

\* One step of the insertion sort list.sort runs on a list this short: x
\* goes after every element whose key is not greater than its own.
InsertByKey(sorted, x) ==
    LET p == Cardinality({i \in 1..Len(sorted) : StrLeq(SortKey(sorted[i]), SortKey(x))})
    IN  SubSeq(sorted, 1, p) \o <<x>> \o SubSeq(sorted, p + 1, Len(sorted))

\* The passes of the insertion sort: s[i], s[i+1], ... are inserted in turn
\* into the sorted run built from s[1..i-1].
RECURSIVE SortFrom(_, _, _)
SortFrom(sorted, s, i) ==
    IF Len(sorted) = Len(s) THEN sorted
    ELSE SortFrom(InsertByKey(sorted, s[i]), s, i + 1)

\* all_names.sort(key=...)
SortByName(s) == SortFrom(<<>>, s, 1)

----------------------------------------------------------------------------
(* The dedup filter of lines 83-84 *)

\* Variant: the set of ids is left empty.
IdsOf_none(names) == {}

\* {name['id'] for name in existing_names}
IdsOf(names) == {names[i].id : i \in 1..Len(names)}

\* Variants: no candidate is filtered out; the test is inverted.
NovelNames_all(candidates, ids) == candidates

NovelNames_known(candidates, ids) == SelectSeq(candidates, LAMBDA n : n.id \in ids)

\* [name for name in additional_names if name['id'] not in existing_ids]
NovelNames(candidates, ids) == SelectSeq(candidates, LAMBDA n : n.id \notin ids)

----------------------------------------------------------------------------
(* Initial states *)

\* 'Ava', 'ava' and 'Kai': two names that differ by case only, and a
\* capital that sorts before every small letter as a code point.
NameAva == <<65, 118, 97>>
NameAvaLower == <<97, 118, 97>>
NameKai == <<75, 97, 105>>

\* Records the file may hold when the script starts.  ("ava", 'Ava') is
\* the candidate of line 22 itself; ("kai", 'Kai') has the id and name of
\* the candidate of line 49 and differs from it in other members; the two
\* named 'ava' differ from 'Ava' by case only and from each other by id.
Existing(id, name) ==
    NameRecord(id, name, "female", <<"latin">>, <<"modern", "elegant">>, "Life", "popular")

ExistingRecords ==
    {Existing("ava", NameAva), Existing("ava", NameAvaLower),
     Existing("kai", NameKai), Existing("kai", NameAvaLower)}

\* The candidates of lines 22, 25 and 49.
CandidateRecords == {r \in Range(HardcodedNames) : r.id \in {"ava", "mia", "kai"}}

DistinctIds(s) == \A i, j \in 1..Len(s) : s[i].id = s[j].id => i = j

\* The literal of the script, and short lists of its records in any order.
\* Like the literal, no list holds an id twice.
CandidateLists ==
    {HardcodedNames} \cup {s \in SeqsUpTo(CandidateRecords, MaxCand) : DistinctIds(s)}

MissingFile == [kind |-> "missing", data |-> <<>>]
GarbageFile == [kind |-> "garbage", data |-> <<>>]
JsonFile(recs) == [kind |-> "json", data |-> JsonDump(recs)]
PartialFile(recs) == [kind |-> "partial", data |-> JsonDump(recs)]

InitialFiles ==
    {MissingFile, GarbageFile} \cup {JsonFile(s) : s \in SeqsUpTo(ExistingRecords, MaxExisting)}

Init ==
    /\ file \in InitialFiles
    /\ additional_names \in CandidateLists
    /\ stdout = <<>>
    /\ pc = "load"
    /\ err = "none"
    /\ existing_names = <<>>
    /\ existing_ids = {}
    /\ new_names = <<>>
    /\ all_names = <<>>
    /\ runs = 1
    /\ file0 = file

----------------------------------------------------------------------------
(* The statements of the script *)

\* Lines 5-6: open(..., 'r') and json.load succeed on a JSON array.
Load ==
    /\ pc = "load"
    /\ file.kind = "json"
    /\ existing_names' = JsonLoad(file.data)
    /\ pc' = "filter"
    /\ UNCHANGED <<file, stdout, additional_names, err, existing_ids, new_names,
                   all_names, runs, file0>>

\* Variant: the file is opened in a mode that cuts it to length zero.
LoadFail_truncating ==
    /\ pc = "load"
    /\ pc' = "failed"
    /\ err' = "load"
    /\ file' = PartialFile(<<>>)
    /\ UNCHANGED <<stdout, additional_names, existing_names, existing_ids,
                   new_names, all_names, runs, file0>>

\* Lines 5-6 raise: the path is missing or unreadable, or the content is
\* not JSON.  Nothing catches the exception; the process ends.
LoadFail ==
    /\ pc = "load"
    /\ pc' = "failed"
    /\ err' = "load"
    /\ UNCHANGED <<file, stdout, additional_names, existing_names, existing_ids,
                   new_names, all_names, runs, file0>>

\* Lines 83-84.
Filter ==
    /\ pc = "filter"
    /\ existing_ids' = IdsOf(existing_names)
    /\ new_names' = NovelNames(additional_names, existing_ids')
    /\ pc' = "combine"
    /\ UNCHANGED <<file, stdout, additional_names, err, existing_names, all_names,
                   runs, file0>>

\* Variant: a candidate replaces the loaded record that has its id.
Combine_overwrite ==
    /\ pc = "combine"
    /\ all_names' =
          [i \in 1..Len(existing_names) |->
              IF \E j \in 1..Len(additional_names) :
                    additional_names[j].id = existing_names[i].id
              THEN CHOOSE c \in Range(additional_names) : c.id = existing_names[i].id
              ELSE existing_names[i]] \o new_names
    /\ pc' = "sort"
    /\ UNCHANGED <<file, stdout, additional_names, err, existing_names, existing_ids,
                   new_names, runs, file0>>

\* Line 87: existing_names + new_names, a new list.
Combine ==
    /\ pc = "combine"
    /\ all_names' = existing_names \o new_names
    /\ pc' = "sort"
    /\ UNCHANGED <<file, stdout, additional_names, err, existing_names, existing_ids,
                   new_names, runs, file0>>

\* Line 90: sorts all_names in place.
Sort ==
    /\ pc = "sort"
    /\ all_names' = SortByName(all_names)
    /\ pc' = "open"
    /\ UNCHANGED <<file, stdout, additional_names, err, existing_names, existing_ids,
                   new_names, runs, file0>>

\* Line 93: open(..., 'w') creates the file or cuts it to length zero.
OpenWrite ==
    /\ pc = "open"
    /\ file' = PartialFile(<<>>)
    /\ pc' = "dump"
    /\ UNCHANGED <<stdout, additional_names, err, existing_names, existing_ids,
                   new_names, all_names, runs, file0>>

\* Variant: the failing open has already cut the file to length zero.
OpenFail_truncating ==
    /\ pc = "open"
    /\ pc' = "failed"
    /\ err' = "open"
    /\ file' = PartialFile(<<>>)
    /\ UNCHANGED <<stdout, additional_names, existing_names, existing_ids,
                   new_names, all_names, runs, file0>>

\* Line 93 raises (the path is not writable): the file is not touched.
OpenFail ==
    /\ pc = "open"
    /\ pc' = "failed"
    /\ err' = "open"
    /\ UNCHANGED <<file, stdout, additional_names, existing_names, existing_ids,
                   new_names, all_names, runs, file0>>

\* Line 94 and the close of the with block: the whole array is written.
Dump ==
    /\ pc = "dump"
    /\ file' = JsonFile(all_names)
    /\ pc' = "report"
    /\ UNCHANGED <<stdout, additional_names, err, existing_names, existing_ids,
                   new_names, all_names, runs, file0>>

\* Line 94 raises part way (disk full, I/O error): the file keeps what was
\* written before the error, the first k records for some k.
DumpFail ==
    /\ pc = "dump"
    /\ \E k \in 0..Len(all_names) : file' = PartialFile(SubSeq(all_names, 1, k))
    /\ pc' = "failed"
    /\ err' = "dump"
    /\ UNCHANGED <<stdout, additional_names, existing_names, existing_ids,
                   new_names, all_names, runs, file0>>

\* Lines 96-97: the two summary lines.
ExpandedLine == [text |-> "Database expanded", from |-> Len(existing_names), to |-> Len(all_names)]
AddedLine == [text |-> "Added", count |-> Len(new_names)]

Report ==
    /\ pc = "report"
    /\ stdout' = stdout \o <<ExpandedLine, AddedLine>>
    /\ pc' = "done"
    /\ UNCHANGED <<file, additional_names, err, existing_names, existing_ids,
                   new_names, all_names, runs, file0>>

\* The script is started again, as a new process, on the file the last run
\* left.
Rerun ==
    /\ pc \in {"done", "failed"}
    /\ runs < MaxRuns
    /\ runs' = runs + 1
    /\ file0' = file
    /\ pc' = "load"
    /\ err' = "none"
    /\ existing_names' = <<>>
    /\ existing_ids' = {}
    /\ new_names' = <<>>
    /\ all_names' = <<>>
    /\ UNCHANGED <<file, stdout, additional_names>>

Next ==
    \/ Load
    \/ LoadFail
    \/ Filter
    \/ Combine
    \/ Sort
    \/ OpenWrite
    \/ OpenFail
    \/ Dump
    \/ DumpFail
    \/ Report
    \/ Rerun

Spec == Init /\ [][Next]_vars

----------------------------------------------------------------------------
(* Properties *)

\* The run has written the whole array (line 94 returned).
Written == pc \in {"report", "done"}

\* The collection the current run found in the file, and the one it wrote.
InitialCollection == JsonLoad(file0.data)
Output == JsonLoad(file.data)

\* An earlier run printed its summary, so the current run started on the
\* file a completed run wrote.
AfterCompletedRun == Len(stdout) >= (IF pc = "done" THEN 4 ELSE 2)

\* The summary lines of the current run are not on stdout.
NoSummaryThisRun == Len(stdout) =< 2 * (runs - 1)

Count(s, x) == Cardinality({i \in 1..Len(s) : s[i] = x})

KeyClass(s, k) == SelectSeq(s, LAMBDA r : Lower(r.name) = k)

\* C1: the written collection has |C| + |{n in N : n.id not in ids(C)}|
\* records, C the collection the run loaded and N the candidate list.
C1_MergedSize ==
    Written =>
        Len(Output) =
            Len(InitialCollection)
            + Cardinality({i \in 1..Len(additional_names) :
                  \A j \in 1..Len(InitialCollection) :
                      InitialCollection[j].id # additional_names[i].id})

\* Some candidates were dropped, others added, to a non-empty collection.
C1_Witness ==
    /\ pc = "done"
    /\ Len(InitialCollection) > 0
    /\ Len(new_names) > 0
    /\ Len(new_names) < Len(additional_names)

\* C2 as stated: for every collection C in the file (here with the literal
\* candidate list of the script), no two written records share an id.
C2_UniqueIdsForEveryFile ==
    (Written /\ additional_names = HardcodedNames) => DistinctIds(Output)

\* C2: when the loaded collection holds no id twice, the written collection
\* holds no id twice.
C2_UniqueIdsPreserved ==
    (Written /\ DistinctIds(InitialCollection)) => DistinctIds(Output)

\* A candidate with an id of the file was kept out and another was added.
C2_Witness ==
    /\ pc = "done"
    /\ DistinctIds(InitialCollection)
    /\ \E i \in 1..Len(additional_names) : additional_names[i].id \in existing_ids
    /\ Len(new_names) > 0

\* C3: every loaded record is in the written collection, all members as
\* loaded, as often as it was loaded; a written record with the id of a
\* loaded record is a loaded record, never the candidate with that id.
C3_ExistingKept ==
    Written =>
        /\ \A x \in Range(InitialCollection) : Count(Output, x) = Count(InitialCollection, x)
        /\ \A y \in Range(Output) :
              (\E x \in Range(InitialCollection) : x.id = y.id)
                  => y \in Range(InitialCollection)

\* A candidate has the id of a loaded record and differs from it.
C3_Witness ==
    /\ pc = "done"
    /\ \E x \in Range(InitialCollection), c \in Range(additional_names) :
          x.id = c.id /\ x # c

\* C4: adjacent written records are ordered by lower-cased name.
C4_SortedByLowerName ==
    Written =>
        \A i \in 1..(Len(Output) - 1) :
            StrLeq(Lower(Output[i].name), Lower(Output[i + 1].name))

\* The sort moved records, and the written order is not the order of the
\* names as spelled: a small initial precedes a capital.
C4_Witness ==
    /\ pc = "done"
    /\ Output # existing_names \o new_names
    /\ \E i \in 1..(Len(Output) - 1) : StrLess(Output[i + 1].name, Output[i].name)

\* C5: a run on the file a completed run wrote, with the same candidate
\* list, adds no record: the collection keeps its size and the summary
\* reports that size twice and 0 added.
C5_SecondRunAddsNothing ==
    (Written /\ AfterCompletedRun) =>
        /\ Len(Output) = Len(InitialCollection)
        /\ Len(new_names) = 0
        /\ pc = "done" =>
              /\ stdout[Len(stdout)].count = 0
              /\ stdout[Len(stdout) - 1].from = stdout[Len(stdout) - 3].to
              /\ stdout[Len(stdout) - 1].to = stdout[Len(stdout) - 3].to

\* The first run did add records, the second run is complete.
C5_Witness ==
    /\ pc = "done"
    /\ Len(stdout) = 4
    /\ stdout[2].count > 0
    /\ stdout[1].from > 0

\* C6 as stated: the literal merged into [] gives 56 records, first
\* 'Abraham', last 'Zara'.
C6_FullListIs56 ==
    (pc = "done" /\ file0 = JsonFile(<<>>) /\ additional_names = HardcodedNames) =>
        /\ Len(Output) = 56
        /\ Len(Output) = Len(HardcodedNames)
        /\ Output[1].name = <<65, 98, 114, 97, 104, 97, 109>>
        /\ Output[Len(Output)].name = <<90, 97, 114, 97>>

\* C6: the literal merged into [] gives as many records as the literal
\* holds, which is 57, the first named 'Abraham' and the last 'Zara'.
C6_FullListIs57 ==
    (pc = "done" /\ file0 = JsonFile(<<>>) /\ additional_names = HardcodedNames) =>
        /\ Len(Output) = 57
        /\ Len(Output) = Len(HardcodedNames)
        /\ Output[1].name = <<65, 98, 114, 97, 104, 97, 109>>
        /\ Output[Len(Output)].name = <<90, 97, 114, 97>>

\* The run on [] with the literal is complete.
C6_Witness ==
    /\ pc = "done"
    /\ file0 = JsonFile(<<>>)
    /\ additional_names = HardcodedNames
    /\ stdout = <<[text |-> "Database expanded", from |-> 0, to |-> Len(all_names)],
                  [text |-> "Added", count |-> Len(all_names)]>>

\* C7: the written records of one lower-cased name are, in order, the
\* records of that name in existing_names + new_names.
C7_StableSort ==
    Written =>
        \A r \in Range(Output) :
            KeyClass(Output, Lower(r.name)) =
                KeyClass(existing_names \o new_names, Lower(r.name))

\* A loaded record and an added one have names that differ by case only.
C7_Witness ==
    /\ pc = "done"
    /\ \E x \in Range(existing_names), n \in Range(new_names) :
          Lower(x.name) = Lower(n.name) /\ x.name # n.name

\* C8: a run that fails at the load has assigned nothing, written nothing
\* and printed nothing; a run started on a file that is missing or is not
\* JSON gets no further than the load, and the file stays as it was.
C8_LoadFailureIsTerminal ==
    /\ (pc = "failed" /\ err = "load") =>
          /\ file = file0
          /\ existing_names = <<>> /\ existing_ids = {}
          /\ new_names = <<>> /\ all_names = <<>>
          /\ NoSummaryThisRun
    /\ file0.kind # "json" =>
          /\ pc \in {"load", "failed"}
          /\ pc = "failed" => err = "load"
          /\ file = file0
          /\ NoSummaryThisRun

\* The load failed on the partial file an interrupted write left.
C8_Witness ==
    /\ pc = "failed"
    /\ err = "load"
    /\ file0.kind = "partial"
    /\ Len(file0.data) > 0

\* C9: a run that fails at the write prints no summary.  If the open
\* failed the file is as the run found it.  If the dump failed the file is
\* not JSON and holds the first k written records for some k, whatever it
\* held before.  A failed run takes no further step: the next step starts
\* a new run.
C9_WriteFailureState ==
    /\ (pc = "failed" /\ err = "open") => (file = file0 /\ NoSummaryThisRun)
    /\ (pc = "failed" /\ err = "dump") =>
          /\ file.kind = "partial"
          /\ \E k \in 0..Len(all_names) : file.data = JsonDump(SubSeq(all_names, 1, k))
          /\ NoSummaryThisRun

C9_NoRetry == (pc = "failed") => (pc' = "load" /\ runs' = runs + 1 /\ file' = file)

C9_WriteFailure == []C9_WriteFailureState /\ [][C9_NoRetry]_vars

\* The dump failed part way: the file holds some of the new records, not
\* all, and the collection it held is lost.
C9_Witness ==
    /\ pc = "failed"
    /\ err = "dump"
    /\ file0.kind = "json"
    /\ Len(file.data) > 0
    /\ Len(file.data) < Len(all_names)
    /\ \E x \in Range(file0.data) : x \notin Range(file.data)

\* C10: a run on the file a completed run wrote, with the same candidate
\* list, writes the file it found: the same records in the same order.
C10_FixedPoint == (Written /\ AfterCompletedRun) => file = file0

\* The second run is complete and the file holds two records whose names
\* differ by case only, one of them added by the first run.
C10_Witness ==
    /\ pc = "done"
    /\ Len(stdout) = 4
    /\ stdout[2].count > 0
    /\ \E i, j \in 1..Len(Output) :
          Lower(Output[i].name) = Lower(Output[j].name) /\ Output[i].name # Output[j].name

====
